---------------------------- MODULE Spec2Model ----------------------------
(***************************************************************************)
(* Relationship graph engine of the Convergent plugin.                     *)
(*                                                                         *)
(* The store is the frontmatter of the issue files of the vault.  Every    *)
(* read (FrontmatterUtils.getFrontmatter, the metadata cache read of the   *)
(* cycle walk) and every write (FrontmatterUtils.updateFrontmatter) of a   *)
(* mutator is one step of the caller that runs it; the code between two    *)
(* awaits belongs to the step of the read or write that precedes it.       *)
(* A write is observed by every later read (spec.md, section 6).           *)
(*                                                                         *)
(* An issue file is identified by its basename (issue files are created    *)
(* as <issuesFolder>/<id>.md, so path and basename determine each other).  *)
(* A wikilink string "[[name]]" or "[[name|alias]]" is the record          *)
(* [name, alias]; alias "" is the form without the alias segment.          *)
(***************************************************************************)
EXTENDS Integers, Sequences, FiniteSets, TLC

VARIABLES
    fm,      \* file -> the relationship fields of its frontmatter
    frame,   \* caller -> the activation record of the mutator it runs
    pre,     \* caller -> the store as it was when its current call began
    vres     \* the last call of validateRelationship made on its own

vars == <<fm, frame, pre, vres>>

--------------------------------------------------------------------------
(* Values *)

\* The result of resolveLink for a link that resolves to no file (null),
\* and the null argument of setParent.
NoFile == ""

\* A frontmatter key that is not there (undefined).
Undefined == [set |-> FALSE, val |-> <<>>]

\* A frontmatter key holding the strings of val (parent: a single string).
Value(links) == [set |-> TRUE, val |-> links]

Wikilink(name, alias) == [name |-> name, alias |-> alias]

\* The relationship keys of an issue without relationships.
EmptyFrontmatter ==
    [parent |-> Undefined, sub_issues |-> Undefined, blocked_by |-> Undefined,
     blocks |-> Undefined, related |-> Undefined]

\* The files of the vault.
Files == DOMAIN fm

--------------------------------------------------------------------------
(* RelationshipUtils: links *)

\* parseWikilinks(content)[0] for one wikilink string: the name, alias dropped.
parseWikilinks(link) == <<link.name>>

\* The text left when resolveLink strips the enclosing brackets of a string.
CleanLink(link) ==
    IF link.alias = "" THEN link.name ELSE link.name \o "|" \o link.alias

\* metadataCache.getFirstLinkpathDest(cleanLink, ''): exact match on the name.
getFirstLinkpathDest(store, cleanLink) ==
    IF cleanLink \in DOMAIN store THEN cleanLink ELSE NoFile

\* resolveLink(linkText) for a link text without brackets.
resolveLink(store, linkText) ==
    IF linkText = "" THEN NoFile ELSE getFirstLinkpathDest(store, linkText)

\* resolveLinks(links): each whole string handed to resolveLink, nulls dropped.
resolveLinks(store, links) ==
    LET files == [i \in 1..Len(links) |-> resolveLink(store, CleanLink(links[i]))]
    IN  SelectSeq(files, LAMBDA f : f # NoFile)

fileToWikilink(file) == Wikilink(file, "")

\* The file a stored string resolves to the way the removals resolve it:
\* parseWikilinks(link)[0], then resolveLink.
LinkTarget(store, link) == resolveLink(store, parseWikilinks(link)[1])

\* Faulty variant: the filter also drops the strings that resolve to no file.
WithoutLinksToOrNowhere(store, links, file) ==
    SelectSeq(links, LAMBDA link : LinkTarget(store, link) \notin {file, NoFile})

\* Faulty variant: the filter compares the stored strings with the canonical link.
WithoutEqualLinks(store, links, file) ==
    SelectSeq(links, LAMBDA link : link # fileToWikilink(file))

\* The strings of a list that do not resolve to the file (the filter of the
\* removals: parseWikilinks(link)[0], resolveLink, file?.path !== path).
WithoutLinksTo(store, links, file) ==
    SelectSeq(links, LAMBDA link : LinkTarget(store, link) # file)

\* existing.some(f => f.path === file.path)
SomePath(files, file) == \E i \in 1..Len(files) : files[i] = file

--------------------------------------------------------------------------
(* RelationshipUtils: validation *)

\* Faulty variant: the walk looks at the parent of the first file only.
detectCycleOneHop(store, current, target, visited) ==
    /\ store[current].parent.set
    /\ resolveLink(store, parseWikilinks(store[current].parent.val[1])[1]) = target

\* Faulty variant: a parent link that resolves to no file counts as a cycle.
RECURSIVE detectCycleDanglingFound(_, _, _, _)
detectCycleDanglingFound(store, current, target, visited) ==
    IF current \in visited
    THEN FALSE
    ELSE LET parentLink == store[current].parent
         IN  IF ~parentLink.set
             THEN FALSE
             ELSE LET parentText == parseWikilinks(parentLink.val[1])[1]
                      parentFile == resolveLink(store, parentText)
                  IN  IF parentFile = NoFile
                      THEN TRUE
                      ELSE IF parentFile = target
                           THEN TRUE
                           ELSE detectCycleDanglingFound(store, parentFile, target,
                                                         visited \cup {current})

RECURSIVE detectCycleRecursive(_, _, _, _)
detectCycleRecursive(store, current, target, visited) ==
    IF current \in visited
    THEN FALSE
    ELSE LET parentLink == store[current].parent
         IN  IF ~parentLink.set
             THEN FALSE
             ELSE LET parentText == parseWikilinks(parentLink.val[1])[1]
                      parentFile == resolveLink(store, parentText)
                  IN  IF parentFile = NoFile
                      THEN FALSE
                      ELSE IF parentFile = target
                           THEN TRUE
                           ELSE detectCycleRecursive(store, parentFile, target,
                                                     visited \cup {current})

RECURSIVE HopsUnmarked(_, _, _, _)
HopsUnmarked(store, current, target, steps) ==
    IF steps = 2 * Cardinality(DOMAIN store)
    THEN 0
    ELSE LET parentLink == store[current].parent
         IN  IF ~parentLink.set
             THEN 0
             ELSE LET parentText == parseWikilinks(parentLink.val[1])[1]
                      parentFile == resolveLink(store, parentText)
                  IN  IF parentFile = NoFile
                      THEN 0
                      ELSE IF parentFile = target
                           THEN 1
                           ELSE 1 + HopsUnmarked(store, parentFile, target,
                                                 steps + 1)

\* Faulty variant: the walk marks no file as visited and gives up after
\* twice as many files as the store holds.
detectCycleHopsUnmarked(store, current, target, visited) ==
    HopsUnmarked(store, current, target, 0)

\* The parent links detectCycleRecursive follows: one for every call of it
\* that resolves the parent of its file.
RECURSIVE detectCycleHops(_, _, _, _)
detectCycleHops(store, current, target, visited) ==
    IF current \in visited
    THEN 0
    ELSE LET parentLink == store[current].parent
         IN  IF ~parentLink.set
             THEN 0
             ELSE LET parentText == parseWikilinks(parentLink.val[1])[1]
                      parentFile == resolveLink(store, parentText)
                  IN  IF parentFile = NoFile
                      THEN 0
                      ELSE IF parentFile = target
                           THEN 1
                           ELSE 1 + detectCycleHops(store, parentFile, target,
                                                    visited \cup {current})

\* Faulty variant: the walk starts at the issue and looks for the proposed parent.
detectParentCycleFromIssue(store, issue, parent) ==
    detectCycleRecursive(store, issue, parent, {})

detectParentCycle(store, issue, parent) ==
    detectCycleRecursive(store, parent, issue, {})

\* Faulty variant: a blocked-by link is refused when the target is already
\* blocked by the source.
validateRelationshipNoMutualBlock(store, type, source, target) ==
    IF source = target
    THEN FALSE
    ELSE IF type = "parent" /\ detectParentCycle(store, source, target)
         THEN FALSE
         ELSE IF type = "child" /\ detectParentCycle(store, target, source)
              THEN FALSE
              ELSE IF type = "blocked-by" /\ store[target].blocked_by.set
                      /\ \E i \in 1..Len(store[target].blocked_by.val) :
                            LinkTarget(store, store[target].blocked_by.val[i]) = source
                   THEN FALSE
                   ELSE TRUE

\* Faulty variant: the self-link check is made for the hierarchy types only.
validateRelationshipSelfInHierarchy(store, type, source, target) ==
    IF type \in {"parent", "child"} /\ source = target
    THEN FALSE
    ELSE IF type = "parent" /\ detectParentCycle(store, source, target)
         THEN FALSE
         ELSE IF type = "child" /\ detectParentCycle(store, target, source)
              THEN FALSE
              ELSE TRUE

\* Faulty variant: the child check passes source and target in the order of the
\* parent check.
validateRelationshipChildUnswapped(store, type, source, target) ==
    IF source = target
    THEN FALSE
    ELSE IF type \in {"parent", "child"}
            /\ detectParentCycle(store, source, target)
         THEN FALSE
         ELSE TRUE

\* The parent links the walk of one validateRelationship call follows.
validateHops(store, type, source, target) ==
    IF source = target
    THEN 0
    ELSE IF type = "parent"
         THEN detectCycleHops(store, target, source, {})
         ELSE IF type = "child"
              THEN detectCycleHops(store, source, target, {})
              ELSE 0

validateRelationship(store, type, source, target) ==
    IF source = target
    THEN FALSE
    ELSE IF type = "parent" /\ detectParentCycle(store, source, target)
         THEN FALSE
         ELSE IF type = "child" /\ detectParentCycle(store, target, source)
              THEN FALSE
              ELSE TRUE

RelationTypes == {"parent", "child", "blocks", "blocked-by", "related"}

--------------------------------------------------------------------------
(* FrontmatterUtils *)

\* getFrontmatter(file): the cached frontmatter of the file.
getFrontmatter(store, file) == store[file]

\* updateFrontmatter(file, {key: value}): Object.assign on the file's
\* frontmatter; a key assigned undefined is not there afterwards.
updateFrontmatter(store, file, key, value) ==
    [store EXCEPT ![file] = [@ EXCEPT ![key] = value]]

\* Faulty variant: an empty list is stored as it is.
EmptyKept(links) == Value(links)

\* value.length > 0 ? value : undefined
NonEmptyOrUndefined(links) == IF Len(links) > 0 THEN Value(links) ELSE Undefined

\* data[key] ? [...data[key]] : []
CopyOrEmpty(field) == IF field.set THEN field.val ELSE <<>>

--------------------------------------------------------------------------
(* Callers *)

\* The callers that may run a mutator; the sequential specifications use
\* the first one only.
Callers == {1, 2}

\* The activation record of a caller that runs no mutator.
Idle ==
    [op |-> "", arg1 |-> NoFile, arg2 |-> NoFile, pc |-> "idle",
     hparent |-> NoFile, hchild |-> NoFile, ret |-> "",
     data1 |-> Undefined, data2 |-> Undefined, links |-> Undefined,
     outcome |-> "", thrown |-> ""]

\* The mutator has returned (outcome "ok"), returned early after a notice
\* ("rejected", "exists"), or thrown ("failed").
Finish(f, outcome) == [f EXCEPT !.pc = "done", !.outcome = outcome]

\* The helper addToSubIssues / removeFromSubIssues returns to its caller.
HelperReturn(f) ==
    IF f.ret = "done" THEN Finish(f, "ok") ELSE [f EXCEPT !.pc = f.ret]

\* The caller starts a mutator: the store it starts from is remembered.
Begin(p, f) ==
    /\ frame[p].pc = "idle"
    /\ frame' = [frame EXCEPT ![p] = f]
    /\ pre' = [pre EXCEPT ![p] = fm]

Goto(p, f) == frame' = [frame EXCEPT ![p] = f] /\ UNCHANGED pre

--------------------------------------------------------------------------
(* RelationshipCommands: sub-issues helpers *)

\* removeFromSubIssues, the read and the filter.
RemoveFromSubIssuesGet(p) ==
    LET f == frame[p]
        parentData == getFrontmatter(fm, f.hparent)
        subIssues == WithoutLinksTo(fm, parentData.sub_issues.val, f.hchild)
    IN  /\ f.pc = "rm_get"
        /\ IF ~parentData.sub_issues.set
           THEN Goto(p, HelperReturn(f))
           ELSE Goto(p, [f EXCEPT !.pc = "rm_upd",
                                  !.links = NonEmptyOrUndefined(subIssues)])
        /\ UNCHANGED <<fm, vres>>

\* removeFromSubIssues, the write.
RemoveFromSubIssuesUpdate(p) ==
    LET f == frame[p]
    IN  /\ f.pc = "rm_upd"
        /\ fm' = updateFrontmatter(fm, f.hparent, "sub_issues", f.links)
        /\ Goto(p, HelperReturn(f))
        /\ UNCHANGED vres

\* addToSubIssues, the read and the check for an existing entry.
AddToSubIssuesGet(p) ==
    LET f == frame[p]
        parentData == getFrontmatter(fm, f.hparent)
        subIssues == CopyOrEmpty(parentData.sub_issues)
        existing == resolveLinks(fm, subIssues)
    IN  /\ f.pc = "add_get"
        /\ IF SomePath(existing, f.hchild)
           THEN Goto(p, HelperReturn(f))
           ELSE Goto(p, [f EXCEPT !.pc = "add_upd",
                                  !.links = Value(Append(subIssues,
                                                  fileToWikilink(f.hchild)))])
        /\ UNCHANGED <<fm, vres>>

\* addToSubIssues, the write.
AddToSubIssuesUpdate(p) ==
    LET f == frame[p]
    IN  /\ f.pc = "add_upd"
        /\ fm' = updateFrontmatter(fm, f.hparent, "sub_issues", f.links)
        /\ Goto(p, HelperReturn(f))
        /\ UNCHANGED vres

--------------------------------------------------------------------------
(* RelationshipCommands: setParent, addChild, removeChild *)

\* The current parent of setParent: the file the issue's parent resolves to.
CurrentParent(store, issue) ==
    LET currentParentLink == getFrontmatter(store, issue).parent
    IN  IF currentParentLink.set
        THEN resolveLink(store, parseWikilinks(currentParentLink.val[1])[1])
        ELSE NoFile

\* The step of setParent that follows the removal from the old parent.
SetNewParent(parent) == IF parent = NoFile THEN "sp_clear" ELSE "sp_validate"

\* Faulty variant: setParent does not remove the issue from its old parent.
SetParentWithoutDetach(p, issue, parent) ==
    /\ Begin(p, [Idle EXCEPT
                    !.op = "setParent", !.arg1 = issue, !.arg2 = parent,
                    !.pc = SetNewParent(parent)])
    /\ UNCHANGED <<fm, vres>>

\* setParent(issue, parent): the read of the issue and of its current parent.
SetParent(p, issue, parent) ==
    LET currentParent == CurrentParent(fm, issue)
    IN  /\ Begin(p, [Idle EXCEPT
                        !.op = "setParent", !.arg1 = issue, !.arg2 = parent,
                        !.hparent = currentParent, !.hchild = issue,
                        !.ret = SetNewParent(parent),
                        !.pc = IF currentParent # NoFile
                               THEN "rm_get" ELSE SetNewParent(parent)])
        /\ UNCHANGED <<fm, vres>>

\* setParent: the validation of the new parent.
SetParentValidate(p) ==
    LET f == frame[p]
        valid == validateRelationship(fm, "parent", f.arg1, f.arg2)
    IN  /\ f.pc = "sp_validate"
        /\ IF ~valid
           THEN Goto(p, Finish(f, "rejected"))
           ELSE Goto(p, [f EXCEPT !.pc = "sp_upd"])
        /\ UNCHANGED <<fm, vres>>

\* setParent: the write of the issue's parent, then addToSubIssues.
SetParentUpdate(p) ==
    LET f == frame[p]
        parentLink == fileToWikilink(f.arg2)
    IN  /\ f.pc = "sp_upd"
        /\ fm' = updateFrontmatter(fm, f.arg1, "parent", Value(<<parentLink>>))
        /\ Goto(p, [f EXCEPT !.pc = "add_get", !.hparent = f.arg2,
                             !.hchild = f.arg1, !.ret = "done"])
        /\ UNCHANGED vres

\* Faulty variant: the parent key is written back as it is.
SetParentClearKept(p) ==
    LET f == frame[p]
    IN  /\ f.pc = "sp_clear"
        /\ fm' = updateFrontmatter(fm, f.arg1, "parent", fm[f.arg1].parent)
        /\ Goto(p, Finish(f, "ok"))
        /\ UNCHANGED vres

\* setParent(issue, null): the parent key is removed.
SetParentClear(p) ==
    LET f == frame[p]
    IN  /\ f.pc = "sp_clear"
        /\ fm' = updateFrontmatter(fm, f.arg1, "parent", Undefined)
        /\ Goto(p, Finish(f, "ok"))
        /\ UNCHANGED vres

\* addChild(parent, child): the validation.
AddChild(p, parent, child) ==
    LET valid == validateRelationship(fm, "child", parent, child)
        f == [Idle EXCEPT !.op = "addChild", !.arg1 = parent, !.arg2 = child]
    IN  /\ IF ~valid
           THEN Begin(p, Finish(f, "rejected"))
           ELSE Begin(p, [f EXCEPT !.pc = "ac_upd"])
        /\ UNCHANGED <<fm, vres>>

\* addChild: the write of the child's parent, then addToSubIssues.
AddChildUpdate(p) ==
    LET f == frame[p]
        parentLink == fileToWikilink(f.arg1)
    IN  /\ f.pc = "ac_upd"
        /\ fm' = updateFrontmatter(fm, f.arg2, "parent", Value(<<parentLink>>))
        /\ Goto(p, [f EXCEPT !.pc = "add_get", !.hparent = f.arg1,
                             !.hchild = f.arg2, !.ret = "done"])
        /\ UNCHANGED vres

\* removeChild(parent, child).
RemoveChild(p, parent, child) ==
    /\ Begin(p, [Idle EXCEPT !.op = "removeChild", !.arg1 = parent,
                             !.arg2 = child, !.pc = "rc_upd"])
    /\ UNCHANGED <<fm, vres>>

\* removeChild: the child's parent key is removed, then removeFromSubIssues.
RemoveChildUpdate(p) ==
    LET f == frame[p]
    IN  /\ f.pc = "rc_upd"
        /\ fm' = updateFrontmatter(fm, f.arg2, "parent", Undefined)
        /\ Goto(p, [f EXCEPT !.pc = "rm_get", !.hparent = f.arg1,
                             !.hchild = f.arg2, !.ret = "done"])
        /\ UNCHANGED vres

--------------------------------------------------------------------------
(* RelationshipCommands: addBlocker, removeBlocker *)

\* Faulty variant: only the first entry of the field is looked at.
AlreadyLinkedFirstEntry(store, field, file) ==
    /\ field.set
    /\ Len(field.val) > 0
    /\ resolveLink(store, CleanLink(field.val[1])) = file

\* The check of the additions for an entry that is already there.
AlreadyLinked(store, field, file) ==
    field.set /\ SomePath(resolveLinks(store, field.val), file)

\* addBlocker(blockedIssue, blockerIssue): the read of the blocked issue.
AddBlocker(p, blockedIssue, blockerIssue) ==
    LET blockedData == getFrontmatter(fm, blockedIssue)
    IN  /\ Begin(p, [Idle EXCEPT
                        !.op = "addBlocker", !.arg1 = blockedIssue,
                        !.arg2 = blockerIssue, !.pc = "ab_get",
                        !.data1 = blockedData.blocked_by])
        /\ UNCHANGED <<fm, vres>>

\* addBlocker: the read of the blocker, then the check for an existing link.
AddBlockerGet(p) ==
    LET f == frame[p]
        blockerData == getFrontmatter(fm, f.arg2)
        g == [f EXCEPT !.data2 = blockerData.blocks]
    IN  /\ f.pc = "ab_get"
        /\ IF AlreadyLinked(fm, f.data1, f.arg2)
           THEN Goto(p, Finish(g, "exists"))
           ELSE Goto(p, [g EXCEPT !.pc = "ab_upd1"])
        /\ UNCHANGED <<fm, vres>>

\* addBlocker: the write of the blocked issue's blocked-by.
AddBlockerUpdateBlocked(p) ==
    LET f == frame[p]
        blockedByLinks == Append(CopyOrEmpty(f.data1), fileToWikilink(f.arg2))
    IN  /\ f.pc = "ab_upd1"
        /\ fm' = updateFrontmatter(fm, f.arg1, "blocked_by", Value(blockedByLinks))
        /\ Goto(p, [f EXCEPT !.pc = "ab_upd2"])
        /\ UNCHANGED vres

\* Faulty variant: the link written to the blocker's blocks is the blocker's own.
AddBlockerUpdateBlockerOwnLink(p) ==
    LET f == frame[p]
        blocksLinks == Append(CopyOrEmpty(f.data2), fileToWikilink(f.arg2))
    IN  /\ f.pc = "ab_upd2"
        /\ fm' = updateFrontmatter(fm, f.arg2, "blocks", Value(blocksLinks))
        /\ Goto(p, Finish(f, "ok"))
        /\ UNCHANGED vres

\* addBlocker: the write of the blocker's blocks.
AddBlockerUpdateBlocker(p) ==
    LET f == frame[p]
        blocksLinks == Append(CopyOrEmpty(f.data2), fileToWikilink(f.arg1))
    IN  /\ f.pc = "ab_upd2"
        /\ fm' = updateFrontmatter(fm, f.arg2, "blocks", Value(blocksLinks))
        /\ Goto(p, Finish(f, "ok"))
        /\ UNCHANGED vres

\* The step of a removal after the two reads and after its first write.
RemovalStep(first, second, f) ==
    IF first /\ f.data1.set
    THEN [f EXCEPT !.pc = "upd1"]
    ELSE IF second /\ f.data2.set
         THEN [f EXCEPT !.pc = "upd2"]
         ELSE Finish(f, "ok")

\* removeBlocker(blockedIssue, blockerIssue): the read of the blocked issue.
RemoveBlocker(p, blockedIssue, blockerIssue) ==
    LET blockedData == getFrontmatter(fm, blockedIssue)
    IN  /\ Begin(p, [Idle EXCEPT
                        !.op = "removeBlocker", !.arg1 = blockedIssue,
                        !.arg2 = blockerIssue, !.pc = "get",
                        !.data1 = blockedData.blocked_by])
        /\ UNCHANGED <<fm, vres>>

\* removeBlocker: the read of the blocker.
RemoveBlockerGet(p) ==
    LET f == frame[p]
        blockerData == getFrontmatter(fm, f.arg2)
    IN  /\ f.op = "removeBlocker" /\ f.pc = "get"
        /\ Goto(p, RemovalStep(TRUE, TRUE, [f EXCEPT !.data2 = blockerData.blocks]))
        /\ UNCHANGED <<fm, vres>>

\* removeBlocker: the write of the blocked issue's blocked-by.
RemoveBlockerUpdateBlocked(p) ==
    LET f == frame[p]
        blockedByLinks == WithoutLinksTo(fm, f.data1.val, f.arg2)
    IN  /\ f.op = "removeBlocker" /\ f.pc = "upd1"
        /\ fm' = updateFrontmatter(fm, f.arg1, "blocked_by",
                                   NonEmptyOrUndefined(blockedByLinks))
        /\ Goto(p, RemovalStep(FALSE, TRUE, f))
        /\ UNCHANGED vres

\* removeBlocker: the write of the blocker's blocks.
RemoveBlockerUpdateBlocker(p) ==
    LET f == frame[p]
        blocksLinks == WithoutLinksTo(fm, f.data2.val, f.arg1)
    IN  /\ f.op = "removeBlocker" /\ f.pc = "upd2"
        /\ fm' = updateFrontmatter(fm, f.arg2, "blocks",
                                   NonEmptyOrUndefined(blocksLinks))
        /\ Goto(p, Finish(f, "ok"))
        /\ UNCHANGED vres

--------------------------------------------------------------------------
(* RelationshipCommands: addRelated, removeRelated *)

\* addRelated(issue1, issue2): the read of issue1.
AddRelated(p, issue1, issue2) ==
    LET data1 == getFrontmatter(fm, issue1)
    IN  /\ Begin(p, [Idle EXCEPT
                        !.op = "addRelated", !.arg1 = issue1, !.arg2 = issue2,
                        !.pc = "ar_get", !.data1 = data1.related])
        /\ UNCHANGED <<fm, vres>>

\* addRelated: the read of issue2, then the check for an existing link.
AddRelatedGet(p) ==
    LET f == frame[p]
        data2 == getFrontmatter(fm, f.arg2)
        g == [f EXCEPT !.data2 = data2.related]
    IN  /\ f.pc = "ar_get"
        /\ IF AlreadyLinked(fm, f.data1, f.arg2)
           THEN Goto(p, Finish(g, "exists"))
           ELSE Goto(p, [g EXCEPT !.pc = "ar_upd1"])
        /\ UNCHANGED <<fm, vres>>

\* addRelated: the write of issue1's related.
AddRelatedUpdate1(p) ==
    LET f == frame[p]
        related1 == Append(CopyOrEmpty(f.data1), fileToWikilink(f.arg2))
    IN  /\ f.pc = "ar_upd1"
        /\ fm' = updateFrontmatter(fm, f.arg1, "related", Value(related1))
        /\ Goto(p, [f EXCEPT !.pc = "ar_upd2"])
        /\ UNCHANGED vres

\* Faulty variant: the second write links issue2 to itself.
AddRelatedUpdate2OwnLink(p) ==
    LET f == frame[p]
        related2 == Append(CopyOrEmpty(f.data2), fileToWikilink(f.arg2))
    IN  /\ f.pc = "ar_upd2"
        /\ fm' = updateFrontmatter(fm, f.arg2, "related", Value(related2))
        /\ Goto(p, Finish(f, "ok"))
        /\ UNCHANGED vres

\* addRelated: the write of issue2's related.
AddRelatedUpdate2(p) ==
    LET f == frame[p]
        related2 == Append(CopyOrEmpty(f.data2), fileToWikilink(f.arg1))
    IN  /\ f.pc = "ar_upd2"
        /\ fm' = updateFrontmatter(fm, f.arg2, "related", Value(related2))
        /\ Goto(p, Finish(f, "ok"))
        /\ UNCHANGED vres

\* removeRelated(issue1, issue2): the read of issue1.
RemoveRelated(p, issue1, issue2) ==
    LET data1 == getFrontmatter(fm, issue1)
    IN  /\ Begin(p, [Idle EXCEPT
                        !.op = "removeRelated", !.arg1 = issue1, !.arg2 = issue2,
                        !.pc = "get", !.data1 = data1.related])
        /\ UNCHANGED <<fm, vres>>

\* removeRelated: the read of issue2.
RemoveRelatedGet(p) ==
    LET f == frame[p]
        data2 == getFrontmatter(fm, f.arg2)
    IN  /\ f.op = "removeRelated" /\ f.pc = "get"
        /\ Goto(p, RemovalStep(TRUE, TRUE, [f EXCEPT !.data2 = data2.related]))
        /\ UNCHANGED <<fm, vres>>

\* removeRelated: the write of issue1's related.
RemoveRelatedUpdate1(p) ==
    LET f == frame[p]
        related1 == WithoutLinksTo(fm, f.data1.val, f.arg2)
    IN  /\ f.op = "removeRelated" /\ f.pc = "upd1"
        /\ fm' = updateFrontmatter(fm, f.arg1, "related",
                                   NonEmptyOrUndefined(related1))
        /\ Goto(p, RemovalStep(FALSE, TRUE, f))
        /\ UNCHANGED vres

\* removeRelated: the write of issue2's related.
RemoveRelatedUpdate2(p) ==
    LET f == frame[p]
        related2 == WithoutLinksTo(fm, f.data2.val, f.arg1)
    IN  /\ f.op = "removeRelated" /\ f.pc = "upd2"
        /\ fm' = updateFrontmatter(fm, f.arg2, "related",
                                   NonEmptyOrUndefined(related2))
        /\ Goto(p, Finish(f, "ok"))
        /\ UNCHANGED vres

--------------------------------------------------------------------------
(* A write that fails *)

\* The steps of the mutators that call updateFrontmatter.
WriteSteps ==
    {"rm_upd", "add_upd", "sp_upd", "sp_clear", "ac_upd", "rc_upd",
     "ab_upd1", "ab_upd2", "upd1", "upd2", "ar_upd1", "ar_upd2"}

\* Faulty variant: the mutator restores the store before it rethrows.
WriteFailsRolledBack(p) ==
    LET f == frame[p]
    IN  /\ f.pc \in WriteSteps
        /\ fm' = pre[p]
        /\ Goto(p, [Finish(f, "failed") EXCEPT !.thrown = f.pc])
        /\ UNCHANGED vres

\* processFrontMatter rejects: updateFrontmatter throws, no mutator catches,
\* so the mutator ends there with what it has written so far.
WriteFails(p) ==
    LET f == frame[p]
    IN  /\ f.pc \in WriteSteps
        /\ Goto(p, [Finish(f, "failed") EXCEPT !.thrown = f.pc])
        /\ UNCHANGED <<fm, vres>>

\* The store of a caller that has no call in progress.
NoStore == [file \in Files |-> EmptyFrontmatter]

\* The promise of the mutator settles and the caller is free again.
Return(p) ==
    /\ frame[p].pc = "done"
    /\ frame' = [frame EXCEPT ![p] = Idle]
    /\ pre' = [pre EXCEPT ![p] = NoStore]
    /\ UNCHANGED <<fm, vres>>

--------------------------------------------------------------------------
(* Initial stores *)

\* The issue files of the vault in the specifications of the mutators.
IssueFiles == {"A", "B", "C"}

\* No validateRelationship call made on its own yet.
NoCall ==
    [type |-> "", source |-> NoFile, target |-> NoFile, result |-> FALSE,
     hops |-> 0]

\* Issues as createIssue leaves them: no relationship key.
NewIssues == [file \in IssueFiles |-> EmptyFrontmatter]

\* A hand-edited hierarchy with alias segments: B and C are sub-issues of A.
AliasedHierarchy ==
    [NewIssues EXCEPT
        !["A"].sub_issues = Value(<<Wikilink("B", "first"), Wikilink("C", "")>>),
        !["B"].parent = Value(<<Wikilink("A", "top")>>),
        !["C"].parent = Value(<<Wikilink("A", "")>>)]

\* A hierarchy with links to a deleted issue: B is a sub-issue of A.
DanglingHierarchy ==
    [NewIssues EXCEPT
        !["A"].parent = Value(<<Wikilink("Gone", "")>>),
        !["A"].sub_issues = Value(<<Wikilink("Gone", ""), Wikilink("B", "")>>),
        !["B"].parent = Value(<<Wikilink("A", "")>>)]

HierarchyStores == {NewIssues, AliasedHierarchy, DanglingHierarchy}

InitCallers ==
    /\ frame = [p \in Callers |-> Idle]
    /\ pre = [p \in Callers |-> NoStore]
    /\ vres = NoCall

--------------------------------------------------------------------------
(* One caller running setParent, addChild and removeChild, call after call *)

InitHierarchy ==
    /\ fm \in HierarchyStores
    /\ InitCallers

HierarchyStep(p) ==
    \/ \E issue \in Files, parent \in Files \cup {NoFile} :
          SetParent(p, issue, parent)
    \/ \E parent \in Files, child \in Files : AddChild(p, parent, child)
    \/ \E parent \in Files, child \in Files : RemoveChild(p, parent, child)
    \/ RemoveFromSubIssuesGet(p)
    \/ RemoveFromSubIssuesUpdate(p)
    \/ SetParentValidate(p)
    \/ SetParentUpdate(p)
    \/ SetParentClear(p)
    \/ AddChildUpdate(p)
    \/ RemoveChildUpdate(p)
    \/ AddToSubIssuesGet(p)
    \/ AddToSubIssuesUpdate(p)
    \/ Return(p)

NextHierarchy == HierarchyStep(1)

SpecHierarchy == InitHierarchy /\ [][NextHierarchy]_vars

--------------------------------------------------------------------------
(* One caller running the blocker and related mutators, call after call *)

\* The issue files of the vault in the specification of the link mutators.
LinkFiles == {"A", "B"}

NewLinkIssues == [file \in LinkFiles |-> EmptyFrontmatter]

\* Hand-edited links: B blocks A through an alias, A is related to B, and A
\* keeps links to a deleted issue.
EditedLinks ==
    [NewLinkIssues EXCEPT
        !["A"].blocked_by = Value(<<Wikilink("Gone", ""), Wikilink("B", "dep")>>),
        !["B"].blocks = Value(<<Wikilink("A", "")>>),
        !["A"].related = Value(<<Wikilink("B", "")>>),
        !["B"].related = Value(<<Wikilink("A", "see")>>)]

\* A one-sided link left by an edit of B alone.
OrphanedLinks ==
    [NewLinkIssues EXCEPT !["B"].blocks = Value(<<Wikilink("A", "was")>>)]

LinkStores == {NewLinkIssues, EditedLinks, OrphanedLinks}

InitLinks ==
    /\ fm \in LinkStores
    /\ InitCallers

LinksStep(p) ==
    \/ \E blocked \in Files, blocker \in Files : AddBlocker(p, blocked, blocker)
    \/ \E blocked \in Files, blocker \in Files : RemoveBlocker(p, blocked, blocker)
    \/ \E issue1 \in Files, issue2 \in Files : AddRelated(p, issue1, issue2)
    \/ \E issue1 \in Files, issue2 \in Files : RemoveRelated(p, issue1, issue2)
    \/ AddBlockerGet(p)
    \/ AddBlockerUpdateBlocked(p)
    \/ AddBlockerUpdateBlocker(p)
    \/ RemoveBlockerGet(p)
    \/ RemoveBlockerUpdateBlocked(p)
    \/ RemoveBlockerUpdateBlocker(p)
    \/ AddRelatedGet(p)
    \/ AddRelatedUpdate1(p)
    \/ AddRelatedUpdate2(p)
    \/ RemoveRelatedGet(p)
    \/ RemoveRelatedUpdate1(p)
    \/ RemoveRelatedUpdate2(p)
    \/ Return(p)

NextLinks == LinksStep(1)

SpecLinks == InitLinks /\ [][NextLinks]_vars

--------------------------------------------------------------------------
(* validateRelationship called on its own, on every parent graph *)

\* The issue files of the vault in the specification of the validator.
GraphFiles == {"A", "B", "C", "D"}

\* The parent key of an issue of an arbitrary graph: not there, a link to an
\* issue (itself included), a link to a deleted issue, a link with an alias.
ParentFields ==
    {Undefined}
    \cup {Value(<<Wikilink(name, "")>>) : name \in GraphFiles \cup {"Gone"}}
    \cup {Value(<<Wikilink("B", "up")>>)}

ParentGraphs ==
    {[file \in GraphFiles |-> [EmptyFrontmatter EXCEPT !.parent = parents[file]]] :
        parents \in [GraphFiles -> ParentFields]}

InitValidate ==
    /\ fm \in ParentGraphs
    /\ InitCallers

\* One call of the validator (RelationshipModal.onChooseSuggestion and the
\* mutators make it) on the graph of the store.
Validate(type, source, target) ==
    /\ vres = NoCall
    /\ vres' = [type |-> type, source |-> source, target |-> target,
                result |-> validateRelationship(fm, type, source, target),
                hops |-> validateHops(fm, type, source, target)]
    /\ UNCHANGED <<fm, frame, pre>>

NextValidate ==
    \E type \in RelationTypes, source \in Files, target \in Files :
        Validate(type, source, target)

SpecValidate == InitValidate /\ [][NextValidate]_vars

--------------------------------------------------------------------------
(* validateRelationship called on its own, on every blocking graph *)

\* The issues in the order their links are written into a list.
IssueOrder == <<"A", "B", "C">>

\* The list key that holds a link to each of the issues, in their order, absent
\* (as generateIssueFrontmatter and the mutators leave it) when there is none.
LinksTo(issues) ==
    LET chosen == SelectSeq(IssueOrder, LAMBDA other : other \in issues)
    IN  IF chosen = <<>>
        THEN Undefined
        ELSE Value([i \in 1..Len(chosen) |-> fileToWikilink(chosen[i])])

\* The stores addBlocker and addRelated build: every issue is blocked by at
\* most one issue (itself included, as a hand edit can write), the blocker
\* lists it under blocks, and the two ends of a blocking link are related.
BlockingGraphs ==
    {[file \in IssueFiles |->
        [EmptyFrontmatter EXCEPT
            !.blocked_by = LinksTo({blocker[file]}),
            !.blocks = LinksTo({other \in IssueFiles : blocker[other] = file}),
            !.related = LinksTo({blocker[file]}
                                \cup {other \in IssueFiles : blocker[other] = file})]] :
        blocker \in [IssueFiles -> IssueFiles \cup {NoFile}]}

InitValidateBlocking ==
    /\ fm \in BlockingGraphs
    /\ InitCallers

SpecValidateBlocking == InitValidateBlocking /\ [][NextValidate]_vars

--------------------------------------------------------------------------
(* Two calls in succession: the first caller runs any mutator to its end,  *)
(* then the second caller runs any mutator; any write may fail.            *)

\* The second call begins when the first has ended.
Turn(p) == p = 1 \/ frame[1].pc = "done"

\* One step of a mutator run by the caller.
MutatorStep(p) ==
    \/ \E issue \in Files, parent \in Files \cup {NoFile} :
          Turn(p) /\ SetParent(p, issue, parent)
    \/ \E parent \in Files, child \in Files :
          Turn(p) /\ AddChild(p, parent, child)
    \/ \E parent \in Files, child \in Files :
          Turn(p) /\ RemoveChild(p, parent, child)
    \/ \E blocked \in Files, blocker \in Files :
          Turn(p) /\ AddBlocker(p, blocked, blocker)
    \/ \E blocked \in Files, blocker \in Files :
          Turn(p) /\ RemoveBlocker(p, blocked, blocker)
    \/ \E issue1 \in Files, issue2 \in Files :
          Turn(p) /\ AddRelated(p, issue1, issue2)
    \/ \E issue1 \in Files, issue2 \in Files :
          Turn(p) /\ RemoveRelated(p, issue1, issue2)
    \/ RemoveFromSubIssuesGet(p)
    \/ RemoveFromSubIssuesUpdate(p)
    \/ SetParentValidate(p)
    \/ SetParentUpdate(p)
    \/ SetParentClear(p)
    \/ AddChildUpdate(p)
    \/ RemoveChildUpdate(p)
    \/ AddToSubIssuesGet(p)
    \/ AddToSubIssuesUpdate(p)
    \/ AddBlockerGet(p)
    \/ AddBlockerUpdateBlocked(p)
    \/ AddBlockerUpdateBlocker(p)
    \/ RemoveBlockerGet(p)
    \/ RemoveBlockerUpdateBlocked(p)
    \/ RemoveBlockerUpdateBlocker(p)
    \/ AddRelatedGet(p)
    \/ AddRelatedUpdate1(p)
    \/ AddRelatedUpdate2(p)
    \/ RemoveRelatedGet(p)
    \/ RemoveRelatedUpdate1(p)
    \/ RemoveRelatedUpdate2(p)
    \/ WriteFails(p)

\* Issues A and C linked by the link commands, B linked to nothing.
LinkedElsewhere ==
    [NewIssues EXCEPT
        !["A"].blocked_by = Value(<<fileToWikilink("C")>>),
        !["C"].blocks = Value(<<fileToWikilink("A")>>),
        !["A"].related = Value(<<fileToWikilink("C")>>),
        !["C"].related = Value(<<fileToWikilink("A")>>)]

InitTwoCalls ==
    /\ fm \in HierarchyStores \cup {NewLinkIssues, EditedLinks, LinkedElsewhere}
    /\ InitCallers

NextTwoCalls == \E p \in Callers : MutatorStep(p)

SpecTwoCalls == InitTwoCalls /\ [][NextTwoCalls]_vars

--------------------------------------------------------------------------
(* The link mutators on issues as createIssue leaves them *)

InitFreshLinks ==
    /\ fm = NewLinkIssues
    /\ InitCallers

SpecFreshLinks == InitFreshLinks /\ [][NextLinks]_vars

--------------------------------------------------------------------------
(* Two calls interleaved: each caller runs one mutator, and the steps of   *)
(* the two (every read, every write) are taken in any order.               *)

\* One step of setParent or addChild run by the caller.
InterleavedHierarchyStep(p) ==
    \/ \E issue \in Files, parent \in Files \cup {NoFile} :
          SetParent(p, issue, parent)
    \/ \E parent \in Files, child \in Files : AddChild(p, parent, child)
    \/ RemoveFromSubIssuesGet(p)
    \/ RemoveFromSubIssuesUpdate(p)
    \/ SetParentValidate(p)
    \/ SetParentUpdate(p)
    \/ SetParentClear(p)
    \/ AddChildUpdate(p)
    \/ AddToSubIssuesGet(p)
    \/ AddToSubIssuesUpdate(p)

InitInterleavedHierarchy ==
    /\ fm \in {NewIssues, AliasedHierarchy}
    /\ InitCallers

NextInterleavedHierarchy == \E p \in Callers : InterleavedHierarchyStep(p)

SpecInterleavedHierarchy ==
    InitInterleavedHierarchy /\ [][NextInterleavedHierarchy]_vars

\* One step of addBlocker run by the caller.
InterleavedBlockerStep(p) ==
    \/ \E blocked \in Files, blocker \in Files : AddBlocker(p, blocked, blocker)
    \/ AddBlockerGet(p)
    \/ AddBlockerUpdateBlocked(p)
    \/ AddBlockerUpdateBlocker(p)

InitInterleavedBlockers ==
    /\ fm \in {NewIssues, LinkedElsewhere}
    /\ InitCallers

NextInterleavedBlockers == \E p \in Callers : InterleavedBlockerStep(p)

SpecInterleavedBlockers ==
    InitInterleavedBlockers /\ [][NextInterleavedBlockers]_vars

--------------------------------------------------------------------------
(* The graph the store holds, read by resolved identity *)

\* The file a reference points at, its alias discarded; NoFile when dangling.
RefersTo(store, link) ==
    IF link.name \in DOMAIN store THEN link.name ELSE NoFile

\* The files the entries of a field resolve to (none for a key not there).
Targets(store, field) ==
    {RefersTo(store, field.val[i]) : i \in 1..Len(field.val)} \ {NoFile}

ParentSet(store, file) == Targets(store, store[file].parent)

Children(store, file) == Targets(store, store[file].sub_issues)

BlockedBy(store, file) == Targets(store, store[file].blocked_by)

Blocks(store, file) == Targets(store, store[file].blocks)

Related(store, file) == Targets(store, store[file].related)

RECURSIVE ParentClosure(_, _, _)
ParentClosure(store, files, n) ==
    IF n = 0
    THEN files
    ELSE ParentClosure(store,
                       files \cup UNION {ParentSet(store, g) : g \in files},
                       n - 1)

\* The transitive ancestors of a file along the parent edges.
Ancestors(store, file) ==
    ParentClosure(store, ParentSet(store, file), Cardinality(DOMAIN store))

IsForest(store) == \A file \in DOMAIN store : file \notin Ancestors(store, file)

NoSelfLink(store) ==
    \A file \in DOMAIN store :
        /\ file \notin ParentSet(store, file)
        /\ file \notin Children(store, file)
        /\ file \notin BlockedBy(store, file)
        /\ file \notin Blocks(store, file)
        /\ file \notin Related(store, file)

Mirrored(store) ==
    \A a \in DOMAIN store, b \in DOMAIN store :
        /\ b \in ParentSet(store, a) <=> a \in Children(store, b)
        /\ b \in BlockedBy(store, a) <=> a \in Blocks(store, b)
        /\ b \in Related(store, a) <=> a \in Related(store, b)

\* No mutator call is in progress.
Quiescent == \A p \in Callers : frame[p].pc \in {"idle", "done"}

\* The call of the first caller has ended; its record is still at hand.
Ended(op) == frame[1].pc = "done" /\ frame[1].op = op

\* The parent the issue of the running setParent had when the call began.
OldParent == CurrentParent(pre[1], frame[1].arg1)

--------------------------------------------------------------------------
(* Claims *)

\* C1: from a forest, after any sequence of completed setParent, addChild and
\* removeChild calls no issue is its own ancestor along the parent edges.
C1_ParentForest == Quiescent => IsForest(fm)

\* C1 witness: an accepted setParent or addChild has built a chain of two
\* parent edges.
C1_Witness ==
    /\ frame[1].pc = "done" /\ frame[1].outcome = "ok"
    /\ frame[1].op \in {"setParent", "addChild"}
    /\ \E file \in Files : Cardinality(Ancestors(fm, file)) = 2

\* C2: after any sequence of mutator calls, calls with twice the same issue
\* included, no relationship field of an issue refers to the issue itself.
C2_NoSelfLink == Quiescent => NoSelfLink(fm)

\* C3: from a mirrored graph, after any sequence of completed mutator calls
\* every relationship entry is still mirrored on the other endpoint.
C3_Mirrored == Quiescent => Mirrored(fm)

\* C4: on a forest, validate('parent', source, target) is false exactly when
\* source = target or source is a transitive ancestor of target.
C4_ParentValidation ==
    (vres.type = "parent" /\ IsForest(fm)) =>
        (~vres.result <=>
            \/ vres.source = vres.target
            \/ vres.source \in Ancestors(fm, vres.target))

\* C4 witness: the chain A -> B -> C with C proposed as the child of A is
\* rejected.
C4_Witness ==
    /\ vres.type = "parent" /\ vres.source = "C" /\ vres.target = "A"
    /\ ParentSet(fm, "A") = {"B"} /\ ParentSet(fm, "B") = {"C"}
    /\ ParentSet(fm, "C") = {} /\ ParentSet(fm, "D") = {}
    /\ ~vres.result

\* C5: validate(T, E, E) is false for every issue E, every relation type T
\* and every graph.
C5_NoSelfValidation ==
    (vres.type \in RelationTypes /\ vres.source = vres.target) => ~vres.result

\* C5 witness: a self link of a type without cycle check has been validated.
C5_Witness ==
    vres.type = "related" /\ vres.source = "A" /\ vres.target = "A"

\* C6: validate('child', S, T) gives what validate('parent', T, S) gives.
C6_ChildMirrorsParent ==
    vres.type = "child" =>
        vres.result = validateRelationship(fm, "parent", vres.target, vres.source)

\* C6 witness: a child validation rejected although the two issues differ.
C6_Witness ==
    vres.type = "child" /\ vres.source # vres.target /\ ~vres.result

\* C7: a setParent that the validator rejects changes no field of any issue.
C7_RejectionWritesNothing ==
    (Ended("setParent") /\ frame[1].outcome = "rejected") => fm = pre[1]

\* C8: after an accepted setParent(E, newParent) with another current parent,
\* E's parent is newParent, E is no child of oldParent and is a child of
\* newParent.
C8_DetachThenAttach ==
    (/\ Ended("setParent") /\ frame[1].outcome = "ok"
     /\ frame[1].arg2 # NoFile
     /\ OldParent # NoFile /\ OldParent # frame[1].arg2) =>
        /\ ParentSet(fm, frame[1].arg1) = {frame[1].arg2}
        /\ frame[1].arg1 \notin Children(fm, OldParent)
        /\ frame[1].arg1 \in Children(fm, frame[1].arg2)

\* C8 witness: such a call has ended, and the issue was listed under the old
\* parent when it began.
C8_Witness ==
    /\ Ended("setParent") /\ frame[1].outcome = "ok"
    /\ frame[1].arg2 # NoFile
    /\ OldParent # NoFile /\ OldParent # frame[1].arg2
    /\ frame[1].arg1 \in Children(pre[1], OldParent)

\* The steps of setParent that follow the removal from the old parent.
AfterDetach == {"sp_validate", "sp_upd", "add_get", "add_upd"}

\* C9: between the writes of one setParent(E, newParent) the issue is never a
\* child of both parents: it is out of the old parent's children before the
\* parent of E is written and before E is inserted under the new parent.
C9_DetachBeforeAttach ==
    (/\ frame[1].op = "setParent" /\ frame[1].pc \in AfterDetach
     /\ OldParent # NoFile /\ OldParent # frame[1].arg2) =>
        frame[1].arg1 \notin Children(fm, OldParent)

\* C9 witness: the parent of E is about to be written, and E was listed under
\* the old parent when the call began.
C9_Witness ==
    /\ frame[1].op = "setParent" /\ frame[1].pc = "sp_upd"
    /\ OldParent # NoFile /\ OldParent # frame[1].arg2
    /\ frame[1].arg1 \in Children(pre[1], OldParent)

\* C10: after a successful addBlocker(X, Y), X's blocked-by holds Y and Y's
\* blocks holds X; after removeBlocker(X, Y), from any state, neither does.
C10_BlockerMirroring ==
    /\ (Ended("addBlocker") /\ frame[1].outcome = "ok") =>
          /\ frame[1].arg2 \in BlockedBy(fm, frame[1].arg1)
          /\ frame[1].arg1 \in Blocks(fm, frame[1].arg2)
    /\ Ended("removeBlocker") =>
          /\ frame[1].arg2 \notin BlockedBy(fm, frame[1].arg1)
          /\ frame[1].arg1 \notin Blocks(fm, frame[1].arg2)

\* C10 witness: a removeBlocker has ended that found the link on both sides.
C10_Witness ==
    /\ Ended("removeBlocker")
    /\ frame[1].arg2 \in BlockedBy(pre[1], frame[1].arg1)
    /\ frame[1].arg1 \in Blocks(pre[1], frame[1].arg2)

--------------------------------------------------------------------------
(* An add that finds the link already there *)

\* C11: when addBlocker(X, Y) is called while X's blocked-by set holds an
\* entry resolving to Y, the call reports already-exists and leaves every
\* field of every issue as it was; the same for addRelated(A, B) while A's
\* related set holds an entry resolving to B.
C11_ExistingLinkWritesNothing ==
    LET f == frame[1]
    IN  /\ (Ended("addBlocker") /\ f.arg2 \in BlockedBy(pre[1], f.arg1))
            => (f.outcome = "exists" /\ fm = pre[1])
        /\ (Ended("addRelated") /\ f.arg2 \in Related(pre[1], f.arg1))
            => (f.outcome = "exists" /\ fm = pre[1])

--------------------------------------------------------------------------
(* addRelated in either order *)

\* The store with a link to each of the two issues appended to the related
\* field of the other.
BothRelated(store, a, b) ==
    [store EXCEPT
        ![a].related = Value(Append(CopyOrEmpty(store[a].related),
                                    fileToWikilink(b))),
        ![b].related = Value(Append(CopyOrEmpty(store[b].related),
                                    fileToWikilink(a)))]

\* No entry of the related field of either issue resolves to the other.
Unrelated(store, a, b) ==
    a # b /\ b \notin Related(store, a) /\ a \notin Related(store, b)

\* C12: for distinct A and B with no related link between them, addRelated
\* in either argument order ends in the one store where each holds a link
\* to the other; an addRelated of the same two issues called next, in
\* either order, reports already-exists and changes nothing.
C12_RelatedEitherOrder ==
    LET f == frame[1]
        g == frame[2]
    IN  (/\ Ended("addRelated")
         /\ f.outcome # "failed"
         /\ Unrelated(pre[1], f.arg1, f.arg2))
        => /\ f.outcome = "ok"
           /\ g.pc = "idle"
              => /\ fm = BothRelated(pre[1], f.arg1, f.arg2)
                 /\ fm = BothRelated(pre[1], f.arg2, f.arg1)
                 /\ f.arg2 \in Related(fm, f.arg1)
                 /\ f.arg1 \in Related(fm, f.arg2)
           /\ (/\ g.pc = "done"
               /\ g.op = "addRelated"
               /\ {g.arg1, g.arg2} = {f.arg1, f.arg2})
              => (g.outcome = "exists" /\ fm = pre[2])

\* addRelated(A, B) on unrelated issues, then addRelated(B, A).
C12_Witness ==
    /\ Ended("addRelated")
    /\ frame[1].outcome = "ok"
    /\ Unrelated(pre[1], frame[1].arg1, frame[1].arg2)
    /\ frame[2].pc = "done"
    /\ frame[2].op = "addRelated"
    /\ frame[2].arg1 = frame[1].arg2
    /\ frame[2].arg2 = frame[1].arg1
    /\ frame[2].outcome = "exists"

--------------------------------------------------------------------------
(* The same child inserted twice *)

\* The number of entries of the field that resolve to the file.
Entries(store, field, file) ==
    Cardinality({i \in 1..Len(field.val) : RefersTo(store, field.val[i]) = file})

\* Both callers have ended the same call with the same arguments, the first
\* with success and the second without a failed write.
CalledTwice(op) ==
    /\ Ended(op)
    /\ frame[1].outcome = "ok"
    /\ frame[2].pc = "done"
    /\ frame[2].op = op
    /\ frame[2].arg1 = frame[1].arg1
    /\ frame[2].arg2 = frame[1].arg2
    /\ frame[2].outcome # "failed"

\* C13: after addChild(P, C) called twice in succession, or setParent(C, P)
\* called twice in succession, the sub-issues field of P holds exactly one
\* entry resolving to C, and the store is the store the first call left.
C13_ChildInsertedOnce ==
    /\ CalledTwice("addChild")
        => /\ Entries(fm, fm[frame[1].arg1].sub_issues, frame[1].arg2) = 1
           /\ fm = pre[2]
    /\ (CalledTwice("setParent") /\ frame[1].arg2 # NoFile)
        => /\ Entries(fm, fm[frame[1].arg2].sub_issues, frame[1].arg1) = 1
           /\ fm = pre[2]

--------------------------------------------------------------------------
(* No duplicate links from a fresh start *)

LinkKeys == {"blocked_by", "blocks", "related"}

\* No blocks, blocked-by or related field holds two entries resolving to
\* the same issue.
NoDuplicateLinks(store) ==
    \A file \in DOMAIN store, key \in LinkKeys, target \in DOMAIN store :
        Entries(store, store[file][key], target) <= 1

\* C14: starting from issues whose relationship fields are all absent, after
\* any sequence of completed addBlocker, removeBlocker, addRelated and
\* removeRelated calls no blocks, blocked-by or related field holds two
\* entries that resolve to the same issue.
C14_NoDuplicateLinks == Quiescent => NoDuplicateLinks(fm)

\* A second add of a link already there has ended, on a field of two entries.
C14_Witness ==
    /\ frame[1].pc = "done"
    /\ frame[1].op \in {"addBlocker", "addRelated"}
    /\ frame[1].outcome = "exists"
    /\ \E file \in Files, key \in LinkKeys : Len(fm[file][key].val) = 2

--------------------------------------------------------------------------
(* The duplicate check on entries written with an alias *)

\* An entry of the field carries an alias and resolves to the file.
HoldsAliased(store, field, file) ==
    \E i \in 1..Len(field.val) :
        field.val[i].alias # "" /\ RefersTo(store, field.val[i]) = file

\* C15: the duplicate check of the add operations compares by resolved
\* identity: with an aliased entry for Y in X's blocked-by field,
\* addBlocker(X, Y) reports already-exists and adds no second entry for Y;
\* likewise addRelated on the related field, and the insertion into the
\* sub-issues field of the parent adds no second entry for the child.
C15_AliasedEntryFound ==
    LET f == frame[1]
    IN  /\ (/\ Ended("addBlocker")
            /\ f.outcome # "failed"
            /\ HoldsAliased(pre[1], pre[1][f.arg1].blocked_by, f.arg2))
           => /\ f.outcome = "exists"
              /\ Entries(fm, fm[f.arg1].blocked_by, f.arg2)
                    = Entries(pre[1], pre[1][f.arg1].blocked_by, f.arg2)
        /\ (/\ Ended("addRelated")
            /\ f.outcome # "failed"
            /\ HoldsAliased(pre[1], pre[1][f.arg1].related, f.arg2))
           => /\ f.outcome = "exists"
              /\ Entries(fm, fm[f.arg1].related, f.arg2)
                    = Entries(pre[1], pre[1][f.arg1].related, f.arg2)
        /\ (/\ Ended("addChild")
            /\ f.outcome = "ok"
            /\ HoldsAliased(pre[1], pre[1][f.arg1].sub_issues, f.arg2))
           => Entries(fm, fm[f.arg1].sub_issues, f.arg2)
                 = Entries(pre[1], pre[1][f.arg1].sub_issues, f.arg2)

--------------------------------------------------------------------------
(* The last entry removed *)

ListKeys == {"sub_issues", "blocked_by", "blocks", "related"}

\* The call of the caller is a removal from the field of the file: the
\* detach of setParent and removeChild, removeBlocker, removeRelated.
RemovedFrom(p, file, key) ==
    LET f == frame[p]
    IN  /\ f.pc = "done"
        /\ f.outcome = "ok"
        /\ \/ /\ f.op = "setParent" /\ key = "sub_issues"
              /\ file = CurrentParent(pre[p], f.arg1)
           \/ f.op = "removeChild" /\ key = "sub_issues" /\ file = f.arg1
           \/ f.op = "removeBlocker" /\ key = "blocked_by" /\ file = f.arg1
           \/ f.op = "removeBlocker" /\ key = "blocks" /\ file = f.arg2
           \/ f.op = "removeRelated" /\ key = "related" /\ file \in {f.arg1, f.arg2}

\* addBlocker(X, Y) on two issues with no relationship field, then
\* removeBlocker(X, Y), both ended with success.
AddedThenRemoved ==
    /\ Ended("addBlocker")
    /\ frame[1].outcome = "ok"
    /\ pre[1][frame[1].arg1] = EmptyFrontmatter
    /\ pre[1][frame[1].arg2] = EmptyFrontmatter
    /\ frame[2].pc = "done"
    /\ frame[2].op = "removeBlocker"
    /\ frame[2].outcome = "ok"
    /\ frame[2].arg1 = frame[1].arg1
    /\ frame[2].arg2 = frame[1].arg2

\* C16: a removal that takes the last entry out of a multi-valued field
\* leaves the field absent, never present and empty; after addBlocker(X, Y)
\* then removeBlocker(X, Y) on fresh issues the blocked-by field of X and
\* the blocks field of Y are both absent.
C16_LastEntryRemoved ==
    /\ \A p \in Callers, file \in Files, key \in ListKeys :
          (RemovedFrom(p, file, key) /\ Len(fm[file][key].val) = 0)
             => fm[file][key] = Undefined
    /\ AddedThenRemoved
          => /\ fm[frame[1].arg1].blocked_by = Undefined
             /\ fm[frame[1].arg2].blocks = Undefined

\* The add and the removal were between two distinct fresh issues, and the
\* removal found the one entry to take out.
C16_Witness ==
    /\ AddedThenRemoved
    /\ frame[1].arg1 # frame[1].arg2
    /\ Len(pre[2][frame[1].arg1].blocked_by.val) = 1
    /\ Len(pre[2][frame[1].arg2].blocks.val) = 1

--------------------------------------------------------------------------
(* The cycle walk on arbitrary parent graphs *)

\* C17: detectParentCycle ends on every parent graph over a finite set of
\* issues, graphs with a parent cycle included: every validateRelationship
\* call that can be made yields true or false, and the walk of a call has
\* followed no more parent links than there are issues.
C17_WalkEnds ==
    /\ vres = NoCall
          => \A type \in RelationTypes, source \in Files, target \in Files :
                /\ validateRelationship(fm, type, source, target) \in BOOLEAN
                /\ validateHops(fm, type, source, target) <= Cardinality(Files)
    /\ vres # NoCall
          => (vres.result \in BOOLEAN /\ vres.hops <= Cardinality(Files))

\* The walk went round a parent cycle of three issues that does not hold the
\* issue looked for, and ended at the file it had visited.
C17_Witness ==
    /\ vres.type = "parent"
    /\ vres.result
    /\ vres.target \in Ancestors(fm, vres.target)
    /\ vres.source \notin Ancestors(fm, vres.target)
    /\ vres.hops = 3

--------------------------------------------------------------------------
(* A parent chain that ends *)

\* The file and its transitive ancestors.
Chain(store, file) == {file} \cup Ancestors(store, file)

\* The parent chain of the file ends: at an issue without a parent key, or
\* at one whose parent link resolves to no file.
ChainEnds(store, file) ==
    \E last \in Chain(store, file) : ParentSet(store, last) = {}

\* The parent chain of the file ends at a link that resolves to no file.
ChainDangles(store, file) ==
    \E last \in Chain(store, file) :
        store[last].parent.set /\ ParentSet(store, last) = {}

\* C18: when the parent chain walked from T reaches an issue whose parent is
\* absent or resolves to nothing before it reaches S, the check reports no
\* cycle: validate('parent', S, T) is true for S # T.
C18_EndedChainIsValid ==
    (/\ vres.type = "parent"
     /\ vres.source # vres.target
     /\ ChainEnds(fm, vres.target)
     /\ vres.source \notin Ancestors(fm, vres.target))
    => vres.result

\* The chain from T went over two parent links and then met a link to a
\* deleted issue; S was not on it.
C18_Witness ==
    /\ vres.type = "parent"
    /\ vres.source # vres.target
    /\ ChainDangles(fm, vres.target)
    /\ vres.source \notin Ancestors(fm, vres.target)
    /\ vres.hops = 2
    /\ vres.result

--------------------------------------------------------------------------
(* The second write of a pair fails *)

\* The call of the caller has ended at its second write, which threw (the
\* write of the blocker's blocks, of issue2's related, or of the sub-issues
\* of the new parent), and no later call has begun.
SecondWriteThrew(p) ==
    LET f == frame[p]
    IN  /\ f.pc = "done"
        /\ p = 1 => frame[2].pc = "idle"
        /\ \/ f.op = "addBlocker" /\ f.thrown = "ab_upd2"
           \/ f.op = "addRelated" /\ f.thrown = "ar_upd2"
           \/ f.op \in {"setParent", "addChild"} /\ f.thrown = "add_upd"

\* The field the first write of the pair wrote holds what it wrote, and the
\* field the second write was to write is as the call found it.
FirstWriteStays(p) ==
    LET f == frame[p]
        was == pre[p]
    IN  /\ f.op = "addBlocker"
           => /\ fm[f.arg1].blocked_by
                    = Value(Append(CopyOrEmpty(was[f.arg1].blocked_by),
                                   fileToWikilink(f.arg2)))
              /\ fm[f.arg2].blocks = was[f.arg2].blocks
        /\ f.op = "addRelated"
           => /\ fm[f.arg1].related
                    = Value(Append(CopyOrEmpty(was[f.arg1].related),
                                   fileToWikilink(f.arg2)))
              /\ f.arg1 # f.arg2 => fm[f.arg2].related = was[f.arg2].related
        /\ f.op = "addChild"
           => /\ fm[f.arg2].parent = Value(<<fileToWikilink(f.arg1)>>)
              /\ fm[f.arg1].sub_issues = was[f.arg1].sub_issues
        /\ f.op = "setParent"
           => /\ fm[f.arg1].parent = Value(<<fileToWikilink(f.arg2)>>)
              /\ CurrentParent(was, f.arg1) # f.arg2
                 => fm[f.arg2].sub_issues = was[f.arg2].sub_issues

\* C19: when the second store write of a paired mutation (addBlocker,
\* addRelated, setParent, addChild) fails after the first succeeded, the call
\* ends as a failure the caller sees, and what the first write wrote stays in
\* the store: nothing is rolled back.
C19_NoRollback ==
    \A p \in Callers :
        SecondWriteThrew(p)
           => (frame[p].outcome = "failed" /\ FirstWriteStays(p))

\* addBlocker on two distinct issues ended at its failed second write, and
\* the store is no longer the one the call began with.
C19_Witness ==
    /\ SecondWriteThrew(1)
    /\ frame[1].op = "addBlocker"
    /\ frame[1].arg1 # frame[1].arg2
    /\ frame[1].arg2 \in BlockedBy(fm, frame[1].arg1)
    /\ fm # pre[1]

--------------------------------------------------------------------------
(* addBlocker as one operation *)

\* X lists Y as a blocker exactly when Y lists X as blocked.
PairMirrored(store, blocked, blocker) ==
    blocker \in BlockedBy(store, blocked) <=> blocked \in Blocks(store, blocker)

\* C20: addBlocker(X, Y) on distinct issues is one logical operation: once
\* the call has ended, with success or with a failed write, X's blocked-by
\* holds Y exactly when Y's blocks holds X (given it was so when the call
\* began); when the second write cannot be made the first is undone.
C20_BlockerPairAtomic ==
    LET f == frame[1]
    IN  (/\ Ended("addBlocker")
         /\ frame[2].pc = "idle"
         /\ f.arg1 # f.arg2
         /\ PairMirrored(pre[1], f.arg1, f.arg2))
        => /\ PairMirrored(fm, f.arg1, f.arg2)
           /\ f.thrown = "ab_upd2" => fm = pre[1]

--------------------------------------------------------------------------
(* The query helpers on the records of the quick switcher *)

\* The frontmatter key each field of the store is written under.
StoredKeys ==
    [parent |-> "parent", sub_issues |-> "sub-issues",
     blocked_by |-> "blocked-by", blocks |-> "blocks", related |-> "related"]

\* issue.name on a frontmatter object: the value under the key of that very
\* name, undefined when the object has no such key.
Property(data, name) ==
    IF \E field \in DOMAIN StoredKeys : StoredKeys[field] = name
    THEN data[CHOOSE field \in DOMAIN StoredKeys : StoredKeys[field] = name]
    ELSE Undefined

\* QuickSwitcherModal.loadIssues: const issue = frontmatter as Issue, a cast
\* that renames no key.
loadIssue(store, file) == getFrontmatter(store, file)

\* issue.blockedBy?.length || 0, issue.subIssues?.length || 0
LengthOrZero(value) == IF value.set THEN Len(value.val) ELSE 0

isBlocked(issue) == LengthOrZero(Property(issue, "blockedBy")) > 0

getBlockerCount(issue) == LengthOrZero(Property(issue, "blockedBy"))

getChildCount(issue) == LengthOrZero(Property(issue, "subIssues"))

\* C21: for the record of an issue as the quick switcher reads it from the
\* store after a mutation, isBlocked is true exactly when the stored
\* blocked-by field has an entry, getBlockerCount is the number of entries of
\* the stored blocked-by field and getChildCount the number of entries of
\* the stored sub-issues field, an absent field counting as zero; after a
\* successful addBlocker(X, Y), isBlocked(X) is true.
C21_QueryHelpers ==
    (frame[1].pc = "done" /\ frame[1].outcome = "ok" /\ frame[2].pc = "idle")
    => /\ \A file \in Files :
            LET issue == loadIssue(fm, file)
            IN  /\ isBlocked(issue) <=> Len(fm[file].blocked_by.val) > 0
                /\ getBlockerCount(issue) = Len(fm[file].blocked_by.val)
                /\ getChildCount(issue) = Len(fm[file].sub_issues.val)
       /\ (frame[1].op = "addBlocker" /\ frame[1].outcome = "ok")
             => isBlocked(loadIssue(fm, frame[1].arg1))

--------------------------------------------------------------------------
(* setParent(E, none) *)

\* The call of the caller has ended and no later call has begun.
JustEnded(p) == frame[p].pc = "done" /\ (p = 1 => frame[2].pc = "idle")

\* setParent(E, none) of the caller has ended with success.
ParentCleared(p) ==
    /\ JustEnded(p)
    /\ frame[p].op = "setParent"
    /\ frame[p].arg2 = NoFile
    /\ frame[p].outcome = "ok"

\* The two stores agree on every field of the file but the one of the key.
SameBut(was, now, file, key) == now[file] = [was[file] EXCEPT ![key] = now[file][key]]

\* C22: setParent(E, none) leaves E without a parent and out of the
\* sub-issues of its former parent, inserts into no sub-issues field, and
\* changes no relationship field of an issue other than E and the former
\* parent (of E the parent only, of the former parent the sub-issues only).
C22_ParentCleared ==
    \A p \in Callers :
        ParentCleared(p)
        => LET E == frame[p].arg1
               was == pre[p]
               former == CurrentParent(was, E)
           IN  /\ fm[E].parent = Undefined
               /\ ParentSet(fm, E) = {}
               /\ former # NoFile => E \notin Children(fm, former)
               /\ \A file \in Files :
                     /\ Len(fm[file].sub_issues.val) <= Len(was[file].sub_issues.val)
                     /\ Children(fm, file) \subseteq Children(was, file)
               /\ \A file \in Files \ {E, former} : fm[file] = was[file]
               /\ E # former => SameBut(was, fm, E, "parent")
               /\ (former # NoFile /\ E # former)
                     => SameBut(was, fm, former, "sub_issues")

\* The issue had a parent that listed it, next to another child that stays.
C22_Witness ==
    \E p \in Callers :
        /\ ParentCleared(p)
        /\ CurrentParent(pre[p], frame[p].arg1) # NoFile
        /\ frame[p].arg1 \in Children(pre[p], CurrentParent(pre[p], frame[p].arg1))
        /\ Children(fm, CurrentParent(pre[p], frame[p].arg1)) # {}

--------------------------------------------------------------------------
(* removeChild and the graph invariants *)

\* Every issue is listed in the sub-issues of at most one issue.
SingleParent(store) ==
    \A child \in DOMAIN store :
        Cardinality({parent \in DOMAIN store : child \in Children(store, parent)}) <= 1

GraphInvariants(store) ==
    /\ NoSelfLink(store)
    /\ IsForest(store)
    /\ Mirrored(store)
    /\ SingleParent(store)

\* C23: removeChild never breaks a graph invariant: from a store without
\* self-link, with a parent forest, mirrored and with single parents, the
\* store after removeChild(P, C) for any distinct issues P and C, a C whose
\* parent is some Q # P included, satisfies the four again.
C23_RemoveChildKeepsInvariants ==
    \A p \in Callers :
        (/\ JustEnded(p)
         /\ frame[p].op = "removeChild"
         /\ frame[p].arg1 # frame[p].arg2
         /\ frame[p].outcome = "ok"
         /\ GraphInvariants(pre[p]))
        => GraphInvariants(fm)

--------------------------------------------------------------------------
(* One parent listing per issue *)

\* C24: from a mirrored forest, after a completed setParent or addChild every
\* issue is listed in the sub-issues of at most one issue; after an accepted
\* addChild(P2, C) on a child C of P1 # P2, C is no longer listed in the
\* sub-issues of P1.
C24_ListedOnce ==
    \A p \in Callers :
        (/\ JustEnded(p)
         /\ frame[p].op \in {"setParent", "addChild"}
         /\ frame[p].outcome = "ok"
         /\ Mirrored(pre[p]) /\ IsForest(pre[p]) /\ SingleParent(pre[p]))
        => /\ SingleParent(fm)
           /\ frame[p].op = "addChild"
              => LET P1 == CurrentParent(pre[p], frame[p].arg2)
                 IN  (P1 # NoFile /\ P1 # frame[p].arg1)
                        => frame[p].arg2 \notin Children(fm, P1)

--------------------------------------------------------------------------
(* Interleaved calls *)

\* C25: the parent relation stays a forest in every reachable state also
\* when two setParent/addChild calls on overlapping issues are interleaved
\* at their suspension points, each store read and each store write being a
\* step of its own.
C25_ForestInterleaved == IsForest(fm)

\* Both callers have ended an addBlocker on the same blocked issue with two
\* different blockers, both with success.
TwoBlockersAdded ==
    /\ \A p \in Callers :
          /\ frame[p].pc = "done"
          /\ frame[p].op = "addBlocker"
          /\ frame[p].outcome = "ok"
          /\ frame[p].arg1 # frame[p].arg2
    /\ frame[1].arg1 = frame[2].arg1
    /\ frame[1].arg2 # frame[2].arg2

\* C26: when addBlocker(X, Y1) and addBlocker(X, Y2) are interleaved at
\* their suspension points and both complete without a write failure, no
\* update is lost: X's blocked-by holds Y1 and Y2, and the blocks field of
\* Y1 and of Y2 holds X.
C26_NoLostBlocker ==
    TwoBlockersAdded
    => \A p \in Callers :
          /\ frame[p].arg2 \in BlockedBy(fm, frame[p].arg1)
          /\ frame[p].arg1 \in Blocks(fm, frame[p].arg2)

--------------------------------------------------------------------------
(* addBlocker issued again after a failed second write *)

\* addBlocker(X, Y) on distinct issues ended at its failed second write,
\* leaving Y in X's blocked-by and X out of Y's blocks; the same call was
\* then issued again and ended without a failed write.
ReissuedAfterFailure ==
    /\ Ended("addBlocker")
    /\ frame[1].thrown = "ab_upd2"
    /\ frame[1].arg1 # frame[1].arg2
    /\ frame[2].pc = "done"
    /\ frame[2].op = "addBlocker"
    /\ frame[2].arg1 = frame[1].arg1
    /\ frame[2].arg2 = frame[1].arg2
    /\ frame[2].outcome # "failed"
    /\ frame[1].arg2 \in BlockedBy(pre[2], frame[1].arg1)
    /\ frame[1].arg1 \notin Blocks(pre[2], frame[1].arg2)

\* C27: after addBlocker(X, Y) has failed in its second write, issuing
\* addBlocker(X, Y) again with no further failure repairs the graph: the
\* call ends with X in Y's blocks and the pair mirrored.
C27_ReissueRepairs ==
    ReissuedAfterFailure
    => /\ frame[1].arg1 \in Blocks(fm, frame[1].arg2)
       /\ PairMirrored(fm, frame[1].arg1, frame[1].arg2)

--------------------------------------------------------------------------
(* setParent to the parent the issue already has *)

\* C28: setParent(E, P) when the parent of E already is P changes no
\* relationship field: the sub-issues of P keep their entries in their
\* order and the parent of E is as it was.
C28_SameParentChangesNothing ==
    \A p \in Callers :
        (/\ JustEnded(p)
         /\ frame[p].op = "setParent"
         /\ frame[p].arg2 # NoFile
         /\ frame[p].arg2 = CurrentParent(pre[p], frame[p].arg1)
         /\ frame[p].outcome # "failed")
        => fm = pre[p]

--------------------------------------------------------------------------
(* What a mutator leaves alone *)

\* The call of the caller has begun and no later call has.
InCall(p) == frame[p].pc # "idle" /\ (p = 1 => frame[2].pc = "idle")

\* The fields the call may write, as pairs of file and key.
Named(store, f) ==
    CASE f.op \in {"addBlocker", "removeBlocker"}
            -> {<<f.arg1, "blocked_by">>, <<f.arg2, "blocks">>}
      [] f.op \in {"addRelated", "removeRelated"}
            -> {<<f.arg1, "related">>, <<f.arg2, "related">>}
      [] f.op = "setParent"
            -> {<<f.arg1, "parent">>, <<f.arg2, "sub_issues">>,
                <<CurrentParent(store, f.arg1), "sub_issues">>}
      [] f.op \in {"addChild", "removeChild"}
            -> {<<f.arg2, "parent">>, <<f.arg1, "sub_issues">>}
      [] OTHER -> {}

\* The other endpoint of the call for the entries of the field of the file.
Endpoint(f, file, key) ==
    IF f.op \in {"addBlocker", "removeBlocker", "addRelated", "removeRelated"}
    THEN IF file = f.arg1 /\ key # "blocks" THEN f.arg2 ELSE f.arg1
    ELSE IF f.op = "setParent" THEN f.arg1 ELSE f.arg2

\* The entries of the field that do not resolve to the file, in their order:
\* those that resolve to another issue and those that resolve to none.
OtherEntries(store, field, file) ==
    SelectSeq(field.val, LAMBDA link : RefersTo(store, link) # file)

FieldKeys == {"parent", "sub_issues", "blocked_by", "blocks", "related"}

\* C29: every mutator call changes only the relationship fields it names on
\* its endpoints (addBlocker/removeBlocker(X, Y) at most X's blocked-by and
\* Y's blocks, addRelated/removeRelated(A, B) at most the related fields of
\* A and B, setParent/addChild/removeChild at most the parent of the child
\* and the sub-issues of the old and the new parent); every other field of
\* every issue is as it was, and in the written fields the entries that
\* resolve to other issues or to none are as they were, in their order.
C29_Frame ==
    \A p \in Callers :
        InCall(p)
        => \A file \in Files, key \in FieldKeys :
              IF <<file, key>> \notin Named(pre[p], frame[p])
              THEN fm[file][key] = pre[p][file][key]
              ELSE key # "parent"
                   => OtherEntries(fm, fm[file][key], Endpoint(frame[p], file, key))
                      = OtherEntries(pre[p], pre[p][file][key],
                                     Endpoint(frame[p], file, key))

\* A removal has ended on a field that held, next to the entry removed, an
\* entry resolving to no issue, and has changed the field.
C29_Witness ==
    \E p \in Callers, file \in Files, key \in ListKeys :
        /\ JustEnded(p)
        /\ frame[p].outcome = "ok"
        /\ frame[p].op \in {"setParent", "removeChild", "removeBlocker", "removeRelated"}
        /\ <<file, key>> \in Named(pre[p], frame[p])
        /\ fm[file][key] # pre[p][file][key]
        /\ \E i \in 1..Len(pre[p][file][key].val) :
              RefersTo(pre[p], pre[p][file][key].val[i]) = NoFile

--------------------------------------------------------------------------
(* C30 *)

\* C30: for the relation types blocks, blocked-by and related,
\* validateRelationship returns true for every pair of distinct entities, in
\* every graph, the graphs in which the new link closes a blocking cycle or a
\* related cycle included.
C30_LinkTypesOnlySelfCheck ==
    /\ vres # NoCall
    /\ vres.type \in {"blocks", "blocked-by", "related"}
    /\ vres.source # vres.target
    => vres.result

\* C30 witness: a blocked-by link from S to X was validated and accepted while
\* X is blocked by a third issue that S blocks, so that the link closes a
\* blocking cycle of three issues, and S and X are joined by related links
\* through that issue already.
C30_Witness ==
    /\ vres # NoCall
    /\ vres.type = "blocked-by"
    /\ vres.source # vres.target
    /\ vres.result
    /\ \E middle \in Files \ {vres.source, vres.target} :
          /\ middle \in BlockedBy(fm, vres.target)
          /\ vres.source \in BlockedBy(fm, middle)
          /\ middle \in Related(fm, vres.target)
          /\ vres.source \in Related(fm, middle)

==========================================================================
